---- MODULE Spec2Model ----
(***************************************************************************)
(* CHIP-8 interpreter core (core/src/lib.rs) and the host loop that drives *)
(* it (emu/src/main.rs).  The machine is the record `Core`; every handler  *)
(* of the source is an operator from a Core record to the Core record the  *)
(* handler leaves behind.  A Rust panic is recorded in the field `panic`   *)
(* and ends the process: no operation runs afterwards.                     *)
(***************************************************************************)
EXTENDS Integers, Sequences, FiniteSets, TLC

VARIABLES
    pc,              \* Core.pc: u16
    ram,             \* Core.ram: [u8; RAM_SIZE]
    stack,           \* Core.stack: VecDeque<u16>, back = end of the sequence
    display,         \* Core.display: [bool; SCREEN_WIDTH * SCREEN_HEIGHT]
    d_timer,         \* Core.d_timer: u8
    s_timer,         \* Core.s_timer: u8
    i_reg,           \* Core.i_reg: u16
    v_reg,           \* Core.v_reg: [u8; NUM_REG]
    legacy,          \* Core.legacy
    panic,           \* "none", or the panic that aborted the process
    overflow_checks, \* build profile: TRUE = debug (overflow panics), FALSE = release (wraps)
    program,         \* the ROM handed to Core::new
    instruction,     \* the word fetched by the last cycle (-1 before the first)
    keys,            \* the key slice handed to the last cycle
    before,          \* the Core as it was when the last cycle started
    cycles           \* number of calls of cycle so far

vars == <<pc, ram, stack, display, d_timer, s_timer, i_reg, v_reg, legacy, panic,
          overflow_checks, program, instruction, keys, before, cycles>>

----------------------------------------------------------------------------
(* Program constants *)

RAM_SIZE == 4096
NUM_REG == 16
START_ADDR == 512
SCREEN_WIDTH == 64
SCREEN_HEIGHT == 32
FONT_ADDR == 80

U8 == 256
U16 == 65536

(* Bounds of the exploration: calls of cycle per run *)
MaxCycles == 6
MaxAluCycles == 3
MaxDrawCycles == 8
MaxFlowCycles == 4
MaxMemCycles == 10
MaxBcdCycles == 3
MaxScreenCycles == 4
MaxClearCycles == 9
MaxTimerCycles == 6

Pixels == 0 .. (SCREEN_WIDTH * SCREEN_HEIGHT - 1)
Regs == 0 .. (NUM_REG - 1)

FONT ==
    << 240, 144, 144, 144, 240,
        32,  96,  32,  32, 112,
       240,  16, 240, 128, 240,
       240,  16, 240,  16, 240,
       144, 144, 240,  16,  16,
       240, 128, 240,  16, 240,
       240, 128, 240, 144, 240,
       240,  16,  32,  64,  64,
       240, 144, 240, 144, 240,
       240, 144, 240,  16, 240,
       240, 144, 240, 144, 144,
       224, 144, 224, 144, 224,
       240, 128, 128, 128, 240,
       224, 144, 144, 144, 224,
       240, 128, 240, 128, 240,
       240, 128, 240, 128, 128 >>

----------------------------------------------------------------------------
(* Bit arithmetic on unsigned bytes *)

Bit(v, k) == (v \div (2 ^ k)) % 2

BitFn(op, p, q) ==
    CASE op = "and" -> p * q
      [] op = "or"  -> IF p + q > 0 THEN 1 ELSE 0
      [] op = "xor" -> (p + q) % 2

RECURSIVE Bitwise(_, _, _, _)
Bitwise(op, a, b, k) ==
    IF k = 8 THEN 0
    ELSE (2 ^ k) * BitFn(op, Bit(a, k), Bit(b, k)) + Bitwise(op, a, b, k + 1)

BitAnd(a, b) == Bitwise("and", a, b, 0)
BitOr(a, b) == Bitwise("or", a, b, 0)
BitXor(a, b) == Bitwise("xor", a, b, 0)

(* Operand fields of the 12-bit `rest` of an instruction word *)
X(rest) == (rest \div 256) % 16
Y(rest) == (rest \div 16) % 16
N(rest) == rest % 16
NN(rest) == rest % 256

----------------------------------------------------------------------------
(* The machine as a value *)

Core ==
    [pc |-> pc, ram |-> ram, stack |-> stack, display |-> display,
     d_timer |-> d_timer, s_timer |-> s_timer, i_reg |-> i_reg,
     v_reg |-> v_reg, legacy |-> legacy, panic |-> panic]

Panic(self, what) == [self EXCEPT !.panic = what]

(* self.pc += 2 on a u16 *)
pc_add2(self) ==
    IF self.pc + 2 >= U16
    THEN IF overflow_checks THEN Panic(self, "overflow")
         ELSE [self EXCEPT !.pc = (self.pc + 2) % U16]
    ELSE [self EXCEPT !.pc = self.pc + 2]

load_sprites(self) ==
    [self EXCEPT !.ram =
        [a \in FONT_ADDR .. (FONT_ADDR + Len(FONT) - 1) |-> FONT[a - FONT_ADDR + 1]] @@ @]

load_rom(self, prog) ==
    IF START_ADDR + Len(prog) > RAM_SIZE THEN Panic(self, "index")
    ELSE [self EXCEPT !.ram =
            [a \in START_ADDR .. (START_ADDR + Len(prog) - 1) |-> prog[a - START_ADDR + 1]] @@ @]

new(prog, leg) ==
    LET new_core ==
            [pc |-> START_ADDR,
             ram |-> [a \in 0 .. (RAM_SIZE - 1) |-> 0],
             stack |-> << >>,
             display |-> [p \in Pixels |-> FALSE],
             d_timer |-> 0, s_timer |-> 0, i_reg |-> 0,
             v_reg |-> [r \in Regs |-> 0],
             legacy |-> leg, panic |-> "none"]
    IN load_rom(load_sprites(new_core), prog)

(* decrement_timers without the guards: wrapping_sub on both timers *)
decrement_timers_wrapping(self) ==
    [self EXCEPT !.d_timer = (@ - 1) % U8, !.s_timer = (@ - 1) % U8]

(* decrement_timers without its second line: the sound timer is left alone *)
decrement_timers_delay_only(self) ==
    [self EXCEPT !.d_timer = IF @ > 0 THEN @ - 1 ELSE @]

decrement_timers(self) ==
    [self EXCEPT !.d_timer = IF @ > 0 THEN @ - 1 ELSE @,
                 !.s_timer = IF @ > 0 THEN @ - 1 ELSE @]

(* fetch that combines the two bytes low byte first *)
fetch_little_endian(self) ==
    IF self.pc >= RAM_SIZE \/ self.pc + 1 >= RAM_SIZE
    THEN [core |-> Panic(self, "index"), instruction |-> -1]
    ELSE [core |-> pc_add2(self),
          instruction |-> self.ram[self.pc] + self.ram[self.pc + 1] * 256]

(* fetch: the instruction word, and the machine with pc advanced *)
fetch(self) ==
    IF self.pc >= RAM_SIZE \/ self.pc + 1 >= RAM_SIZE
    THEN [core |-> Panic(self, "index"), instruction |-> -1]
    ELSE [core |-> pc_add2(self),
          instruction |-> self.ram[self.pc] * 256 + self.ram[self.pc + 1]]

----------------------------------------------------------------------------
(* Instruction handlers *)

noop(self) == self

(* clear_screen that blanks the first row only *)
clear_screen_first_row(self) ==
    [self EXCEPT !.display = [p \in 0 .. (SCREEN_WIDTH - 1) |-> FALSE] @@ @]

clear_screen(self) == [self EXCEPT !.display = [p \in Pixels |-> FALSE]]

(* jump that clears bit 0 of the target *)
jump_aligned(self, addr) == [self EXCEPT !.pc = addr - (addr % 2)]

jump(self, addr) == [self EXCEPT !.pc = addr]

call(self, addr) == [self EXCEPT !.stack = Append(@, self.pc), !.pc = addr]

(* ret_subroutine that takes the oldest return address (pop_front) *)
ret_subroutine_fifo(self) ==
    IF self.stack = << >> THEN Panic(self, "stack underflow")
    ELSE [self EXCEPT !.pc = Head(self.stack), !.stack = Tail(@)]

(* ret_subroutine that falls back to address 0 on an empty stack
   (unwrap_or_default instead of expect) *)
ret_subroutine_default(self) ==
    IF self.stack = << >> THEN [self EXCEPT !.pc = 0]
    ELSE [self EXCEPT !.pc = self.stack[Len(self.stack)],
                      !.stack = SubSeq(@, 1, Len(@) - 1)]

ret_subroutine(self) ==
    IF self.stack = << >> THEN Panic(self, "stack underflow")
    ELSE [self EXCEPT !.pc = self.stack[Len(self.stack)],
                      !.stack = SubSeq(@, 1, Len(@) - 1)]

skip_eq_val(self, rest) ==
    IF self.v_reg[X(rest)] = NN(rest) THEN pc_add2(self) ELSE self

skip_neq_val(self, rest) ==
    IF self.v_reg[X(rest)] # NN(rest) THEN pc_add2(self) ELSE self

skip_eq_reg(self, rest) ==
    IF self.v_reg[X(rest)] = self.v_reg[Y(rest)] THEN pc_add2(self) ELSE self

skip_neq_reg(self, rest) ==
    IF self.v_reg[X(rest)] # self.v_reg[Y(rest)] THEN pc_add2(self) ELSE self

set_v(self, rest) == [self EXCEPT !.v_reg[X(rest)] = NN(rest)]

add_v_no_carry(self, rest) ==
    [self EXCEPT !.v_reg[X(rest)] = (@ + NN(rest)) % U8]

set(self, rest) == [self EXCEPT !.v_reg[X(rest)] = self.v_reg[Y(rest)]]

or(self, rest) ==
    [self EXCEPT !.v_reg[X(rest)] = BitOr(@, self.v_reg[Y(rest)])]

and(self, rest) ==
    [self EXCEPT !.v_reg[X(rest)] = BitAnd(@, self.v_reg[Y(rest)])]

xor(self, rest) ==
    [self EXCEPT !.v_reg[X(rest)] = BitXor(@, self.v_reg[Y(rest)])]

(* 8xy4: the flag is written first, the sum second *)
add(self, rest) ==
    LET x == X(rest)
        y == Y(rest)
        sum == self.v_reg[x] + self.v_reg[y]
        flagged == [self EXCEPT !.v_reg[15] = IF sum < 256 THEN 0 ELSE 1]
    IN [flagged EXCEPT !.v_reg[x] = sum % 256]

(* 8xy5 / 8xy7: the flag is written first; the difference is then read from
   the register file that already holds the flag *)
sub(self, rest) ==
    LET x == X(rest)
        y == Y(rest)
        minuend == IF N(rest) = 5 THEN x ELSE y
        subtrahend == IF N(rest) = 5 THEN y ELSE x
        flagged == [self EXCEPT !.v_reg[15] =
                        IF self.v_reg[minuend] >= self.v_reg[subtrahend] THEN 1 ELSE 0]
    IN [flagged EXCEPT !.v_reg[x] =
            (flagged.v_reg[minuend] - flagged.v_reg[subtrahend]) % U8]

(* right_shift that never copies Vy, whatever the legacy flag *)
right_shift_in_place(self, rest) ==
    LET x == X(rest)
        flagged == [self EXCEPT !.v_reg[15] = self.v_reg[x] % 2]
    IN [flagged EXCEPT !.v_reg[x] = flagged.v_reg[x] \div 2]

right_shift(self, rest) ==
    LET x == X(rest)
        copied == IF self.legacy
                  THEN [self EXCEPT !.v_reg[x] = self.v_reg[Y(rest)]]
                  ELSE self
        flagged == [copied EXCEPT !.v_reg[15] = copied.v_reg[x] % 2]
    IN [flagged EXCEPT !.v_reg[x] = flagged.v_reg[x] \div 2]

left_shift(self, rest) ==
    LET x == X(rest)
        copied == IF self.legacy
                  THEN [self EXCEPT !.v_reg[x] = self.v_reg[Y(rest)]]
                  ELSE self
        flagged == [copied EXCEPT !.v_reg[15] = copied.v_reg[x] \div 128]
    IN [flagged EXCEPT !.v_reg[x] = (flagged.v_reg[x] * 2) % U8]

set_i(self, addr) == [self EXCEPT !.i_reg = addr]

jump_offset(self, rest) == [self EXCEPT !.pc = self.v_reg[0] + rest]

(* rnd is the byte random() returned *)
rand(self, rest, rnd) == [self EXCEPT !.v_reg[X(rest)] = BitAnd(rnd, NN(rest))]

(* draw_cols that sets a sprite pixel on instead of toggling it *)
draw_cols_or(self, sprite_row, init_x, display_row_pos) ==
    LET on == { c \in 0 .. 7 : init_x + c < SCREEN_WIDTH /\ Bit(sprite_row, 7 - c) # 0 }
        index(c) == SCREEN_WIDTH * display_row_pos + init_x + c
    IN [self EXCEPT
            !.display = [p \in { index(c) : c \in on } |-> TRUE] @@ @,
            !.v_reg[15] = IF \E c \in on : self.display[index(c)] THEN 1 ELSE @]

(* Inner loop of draw_sprite, `for c in 0..8`, on one sprite row.  The loop
   leaves at the first column past the right edge, so it visits the columns
   c with init_x + c < SCREEN_WIDTH; each visited pixel whose sprite bit is
   set is toggled, and VF becomes 1 if one of them was on. *)
draw_cols(self, sprite_row, init_x, display_row_pos) ==
    LET visited == { c \in 0 .. 7 : init_x + c < SCREEN_WIDTH }
        on == { c \in visited : Bit(sprite_row, 7 - c) # 0 }
        index(c) == SCREEN_WIDTH * display_row_pos + init_x + c
    IN [self EXCEPT
            !.display = [p \in { index(c) : c \in on } |-> ~self.display[p]] @@ @,
            !.v_reg[15] = IF \E c \in on : self.display[index(c)] THEN 1 ELSE @]

(* draw_rows that wraps a row past the bottom edge to the top of the screen *)
RECURSIVE draw_rows_wrap(_, _, _, _, _, _)
draw_rows_wrap(self, init_x, init_y, sprite_ptr, sprite_height, r) ==
    IF r >= sprite_height THEN self
    ELSE IF sprite_ptr + r >= RAM_SIZE THEN Panic(self, "index")
    ELSE draw_rows_wrap(
            draw_cols(self, self.ram[sprite_ptr + r], init_x,
                      (init_y + r) % SCREEN_HEIGHT),
            init_x, init_y, sprite_ptr, sprite_height, r + 1)

(* Outer loop of draw_sprite: sprite rows from r on.  The sprite byte is read
   before the row is tested against the bottom edge. *)
RECURSIVE draw_rows(_, _, _, _, _, _)
draw_rows(self, init_x, init_y, sprite_ptr, sprite_height, r) ==
    IF r >= sprite_height THEN self
    ELSE IF sprite_ptr + r >= U16 /\ overflow_checks THEN Panic(self, "overflow")
    ELSE IF (sprite_ptr + r) % U16 >= RAM_SIZE THEN Panic(self, "index")
    ELSE
        LET sprite_row == self.ram[(sprite_ptr + r) % U16]
            display_row_pos == init_y + r
        IN IF display_row_pos >= SCREEN_HEIGHT THEN self
           ELSE draw_rows(draw_cols(self, sprite_row, init_x, display_row_pos),
                          init_x, init_y, sprite_ptr, sprite_height, r + 1)

(* draw_sprite that does not reset VF before drawing *)
draw_sprite_keep_flag(self, rest) ==
    LET init_x == self.v_reg[X(rest)] % SCREEN_WIDTH
        init_y == self.v_reg[Y(rest)] % SCREEN_HEIGHT
        sprite_height == N(rest)
        sprite_ptr == self.i_reg
    IN draw_rows(self, init_x, init_y, sprite_ptr, sprite_height, 0)

draw_sprite(self, rest) ==
    LET init_x == self.v_reg[X(rest)] % SCREEN_WIDTH
        init_y == self.v_reg[Y(rest)] % SCREEN_HEIGHT
        sprite_height == N(rest)
        sprite_ptr == self.i_reg
    IN draw_rows([self EXCEPT !.v_reg[15] = 0],
                 init_x, init_y, sprite_ptr, sprite_height, 0)

Contains(ks, v) == \E j \in 1 .. Len(ks) : ks[j] = v

key_skip(self, rest, ks) ==
    LET key_pressed == Contains(ks, self.v_reg[X(rest)])
    IN IF NN(rest) = 158
       THEN IF key_pressed THEN pc_add2(self) ELSE self
       ELSE IF NN(rest) = 161
       THEN IF ~key_pressed THEN pc_add2(self) ELSE self
       ELSE self

(* await_key that takes the last reported key instead of the first *)
await_key_last(self, rest, ks) ==
    IF ks # << >> THEN [self EXCEPT !.v_reg[X(rest)] = ks[Len(ks)]]
    ELSE [self EXCEPT !.pc = self.pc - 2]

await_key(self, rest, ks) ==
    LET key_pressed == ks # << >>
    IN IF key_pressed THEN [self EXCEPT !.v_reg[X(rest)] = ks[1]]
       ELSE IF self.pc < 2
            THEN IF overflow_checks THEN Panic(self, "overflow")
                 ELSE [self EXCEPT !.pc = (self.pc - 2) % U16]
            ELSE [self EXCEPT !.pc = self.pc - 2]

(* set_i_font with a glyph stride of 4 bytes instead of 5 *)
set_i_font_stride4(self, rest) ==
    [self EXCEPT !.i_reg = (FONT_ADDR + self.v_reg[X(rest)] * 4) % U8]

(* 0x50 + Vx * 5, all of it in u8 *)
set_i_font(self, rest) ==
    LET prod == self.v_reg[X(rest)] * 5
        addr == FONT_ADDR + (prod % U8)
    IN IF overflow_checks /\ (prod >= U8 \/ addr >= U8)
       THEN Panic(self, "overflow")
       ELSE [self EXCEPT !.i_reg = addr % U8]

(* bcd that stores the least significant digit first *)
bcd_reversed(self, rest) ==
    LET x == self.v_reg[X(rest)]
        digits == << x % 10, (x \div 10) % 10, (x \div 100) % 10 >>
        i == self.i_reg
    IN IF i + 3 > RAM_SIZE THEN Panic(self, "index")
       ELSE [self EXCEPT !.ram = [a \in i .. (i + 2) |-> digits[a - i + 1]] @@ @]

bcd(self, rest) ==
    LET x == self.v_reg[X(rest)]
        digits == << (x \div 100) % 10, (x \div 10) % 10, x % 10 >>
        i == self.i_reg
    IN IF i + 3 > RAM_SIZE THEN Panic(self, "index")
       ELSE [self EXCEPT !.ram = [a \in i .. (i + 2) |-> digits[a - i + 1]] @@ @]

(* store_mem over the exclusive range: V0..V(x-1) into ram[i..i+x) *)
store_mem_exclusive(self, rest) ==
    LET x == X(rest)
        i == self.i_reg
    IN IF i + x > RAM_SIZE THEN Panic(self, "index")
       ELSE [self EXCEPT !.ram = [a \in i .. (i + x - 1) |-> self.v_reg[a - i]] @@ @]

store_mem(self, rest) ==
    LET x == X(rest)
        i == self.i_reg
    IN IF i + x >= RAM_SIZE THEN Panic(self, "index")
       ELSE [self EXCEPT !.ram = [a \in i .. (i + x) |-> self.v_reg[a - i]] @@ @]

(* fill_mem with the copy turned round: registers into memory *)
fill_mem_store(self, rest) ==
    LET x == X(rest)
        i == self.i_reg
    IN IF i + x >= RAM_SIZE THEN Panic(self, "index")
       ELSE [self EXCEPT !.ram = [a \in i .. (i + x) |-> self.v_reg[a - i]] @@ @]

fill_mem(self, rest) ==
    LET x == X(rest)
        i == self.i_reg
    IN IF i + x >= RAM_SIZE THEN Panic(self, "index")
       ELSE [self EXCEPT !.v_reg = [r \in Regs |->
                IF r <= x THEN self.ram[i + r] ELSE self.v_reg[r]]]

(* Fx07, Fx15, Fx18, Fx1E: written inline in decode_and_exec *)
get_delay(self, rest) == [self EXCEPT !.v_reg[X(rest)] = self.d_timer]
set_delay(self, rest) == [self EXCEPT !.d_timer = self.v_reg[X(rest)]]
set_sound(self, rest) == [self EXCEPT !.s_timer = self.v_reg[X(rest)]]
add_i(self, rest) ==
    LET sum == self.i_reg + self.v_reg[X(rest)]
    IN IF sum >= U16 /\ overflow_checks THEN Panic(self, "overflow")
       ELSE [self EXCEPT !.i_reg = sum % U16]

(* dbg!("invalid op"): logs and returns *)
invalid_op(self) == self

decode_and_exec(self, instr, ks, rnd) ==
    LET nibble == instr \div 4096
        rest == instr % 4096
    IN CASE nibble = 0 ->
              (CASE rest = 0 -> noop(self)
                 [] rest = 224 -> clear_screen(self)
                 [] rest = 238 -> ret_subroutine(self)
                 [] OTHER -> invalid_op(self))
         [] nibble = 1 -> jump(self, rest)
         [] nibble = 2 -> call(self, rest)
         [] nibble = 3 -> skip_eq_val(self, rest)
         [] nibble = 4 -> skip_neq_val(self, rest)
         [] nibble = 5 -> skip_eq_reg(self, rest)
         [] nibble = 9 -> skip_neq_reg(self, rest)
         [] nibble = 6 -> set_v(self, rest)
         [] nibble = 7 -> add_v_no_carry(self, rest)
         [] nibble = 8 ->
              (CASE N(rest) = 0 -> set(self, rest)
                 [] N(rest) = 1 -> or(self, rest)
                 [] N(rest) = 2 -> and(self, rest)
                 [] N(rest) = 3 -> xor(self, rest)
                 [] N(rest) = 4 -> add(self, rest)
                 [] N(rest) = 5 -> sub(self, rest)
                 [] N(rest) = 7 -> sub(self, rest)
                 [] N(rest) = 6 -> right_shift(self, rest)
                 [] N(rest) = 14 -> left_shift(self, rest)
                 [] OTHER -> invalid_op(self))
         [] nibble = 10 -> set_i(self, rest)
         [] nibble = 11 -> jump_offset(self, rest)
         [] nibble = 12 -> rand(self, rest, rnd)
         [] nibble = 13 -> draw_sprite(self, rest)
         [] nibble = 14 -> key_skip(self, rest, ks)
         [] nibble = 15 ->
              (CASE NN(rest) = 7 -> get_delay(self, rest)
                 [] NN(rest) = 21 -> set_delay(self, rest)
                 [] NN(rest) = 24 -> set_sound(self, rest)
                 [] NN(rest) = 10 -> await_key(self, rest, ks)
                 [] NN(rest) = 30 -> add_i(self, rest)
                 [] NN(rest) = 41 -> set_i_font(self, rest)
                 [] NN(rest) = 51 -> bcd(self, rest)
                 [] NN(rest) = 85 -> store_mem(self, rest)
                 [] NN(rest) = 101 -> fill_mem(self, rest)
                 [] OTHER -> invalid_op(self))
         [] OTHER -> invalid_op(self)

cycle(self, ks, rnd) ==
    LET f == fetch(self)
    IN IF f.core.panic # "none" THEN f.core
       ELSE decode_and_exec(f.core, f.instruction, ks, rnd)

----------------------------------------------------------------------------
(* ROM images *)

Op(n, x, y, k) == n * 4096 + x * 256 + y * 16 + k

RECURSIVE Rom(_)
Rom(words) ==
    IF words = << >> THEN << >>
    ELSE << Head(words) \div 256, Head(words) % 256 >> \o Rom(Tail(words))

(* 6005 7003 F029 D005 *)
RomGlyph == << 96, 5, 112, 3, 240, 41, 208, 5 >>

(* 200: call 204   202: ret (stack empty by then)
   204: call 208   206: ret      208: ret *)
RomCalls == Rom(<< 8708, 238, 8712, 238, 238 >>)

(* 200: call 206   202: call 206   204: jump 204
   206: call 20A   208: ret        20A: ret *)
RomNested == Rom(<< 8710, 8710, 4612, 8714, 238, 238 >>)

(* 200: call 200 *)
RomRecurse == Rom(<< 8704 >>)

(* a return with no call *)
RomUnderflow == Rom(<< 24577, 238 >>)

(* 200: V3 := 9  202: wait for a key into V3  204: skip if key V3 down
   206: skip if key V3 up  208: V4 := 1 *)
RomKeys == Rom(<< 25353, 62218, 58270, 58273, 25601 >>)

(* 200: V2 := 3  202: delay := V2  204: sound := V2  206: V5 := delay
   208: jump 206 *)
RomTimers == Rom(<< 25091, 61973, 61976, 62727, 4614 >>)

(* One word of every row of the opcode table, and words of no row *)
TourWords ==
    { 0, 224, 238, 291,                  \* 0000 00E0 00EE 0123
      4616, 4609, 8960,                  \* 1208 1201 2300
      12802, 12803, 16898, 16899,        \* 3202 3203 4202 4203
      21024, 21025, 37424, 37425,        \* 5220 5221 9230 9231
      27221, 29439,                      \* 6A55 72FF
      33328, 33329, 33330, 33331, 33332, \* 8230 .. 8234
      33333, 33334, 33335, 33342, 33336, \* 8235 8236 8237 823E 8238
      41251, 45824, 49151,               \* A123 B300 BFFF
      49919, 53797,                      \* C2FF D225
      58014, 58017, 57856,               \* E29E E2A1 E200
      61959, 61962, 61973, 61976, 61982, \* F207 F20A F215 F218 F21E
      61993, 62003, 62037, 62053, 62207  \* F229 F233 F255 F265 F2FF
    }

(* 200: V2 := 1   202: delay := V2   204: sound := V2   206: the word *)
TourPrograms == { Rom(<< 25089, 61973, 61976, w >>) : w \in TourWords }

Programs ==
    { RomGlyph, RomCalls, RomNested, RomRecurse, RomUnderflow, RomKeys, RomTimers }
        \cup TourPrograms

(* 6xaa 6ybb 8xyk: load two registers, then one arithmetic or shift
   instruction on them *)
AluRegs == { 0, 1, 14, 15 }
AluBytes == { 0, 1, 128, 255 }
AluOps == { 4, 5, 7, 6, 14 }
AluPrograms ==
    { Rom(<< Op(6, x, a \div 16, a % 16), Op(6, y, b \div 16, b % 16), Op(8, x, y, k) >>) :
        x \in AluRegs, y \in AluRegs, a \in AluBytes, b \in AluBytes, k \in AluOps }

(* 200: Vx := vx   202: Vy := vy   204: I := glyph "1"   206: draw 5 rows
   208: I := i    20A, 20C, 20E: the same Dxyn three times in a row
   210: fifteen bytes of sprite data *)
SpriteData == << 255, 129, 1, 128, 24, 60, 126, 255, 170, 85, 15, 240, 1, 128, 255 >>
DrawRegs == { << 0, 1 >>, << 1, 1 >>, << 15, 0 >>, << 0, 15 >> }
DrawXs == { 0, 60, 63, 70 }
DrawYs == { 0, 30, 31, 40 }
DrawHeights == { 0, 1, 5, 15 }
DrawPointers == { 0, 80, 528, 4095 }
DrawPrograms ==
    { Rom(<< Op(6, xy[1], vx \div 16, vx % 16), Op(6, xy[2], vy \div 16, vy % 16),
             Op(10, 0, 5, 5), Op(13, xy[1], xy[2], 5),
             10 * 4096 + i,
             Op(13, xy[1], xy[2], n), Op(13, xy[1], xy[2], n), Op(13, xy[1], xy[2], n) >>)
        \o SpriteData :
        xy \in DrawRegs, vx \in DrawXs, vy \in DrawYs, n \in DrawHeights, i \in DrawPointers }

(* Control flow.  Targets of 1nnn and 2nnn: an even and an odd address inside
   the ROM, the last two bytes of memory, the last byte, address 0 *)
FlowTargets == { 516, 517, 4094, 4095, 0 }

(* 200: jump nnn   202: V4 := 1   204: V5 := 2 *)
JumpPrograms == { Rom(<< 4096 + t, 25601, 25858 >>) : t \in FlowTargets }

(* 200: call nnn   202: V4 := 1   204: ret *)
CallPrograms == { Rom(<< 8192 + t, 25601, 238 >>) : t \in FlowTargets }

(* 200: jump 203   203: call 207 (pushes 205)   207: ret *)
RomOddReturn == << 18, 3, 0, 34, 7, 0, 0, 0, 238 >>

(* 200: V0 := 1   202: a skip on V0 (V1 = 0)   204: V4 := 1   206: V5 := 2 *)
SkipWords ==
    { 12289, 12290, 16385, 16386,        \* 3001 3002 4001 4002
      20480, 20496, 36864, 36880,        \* 5000 5010 9000 9010
      57502, 57505 }                     \* E09E E0A1
SkipPrograms == { Rom(<< 24577, w, 25601, 25858 >>) : w \in SkipWords }

(* 200: V0 := v   202: jump to V0 + nnn *)
OffsetBytes == { 0, 1, 255 }
OffsetTargets == { 516, 4094, 4095 }
OffsetPrograms ==
    { Rom(<< 24576 + v, 45056 + t >>) : v \in OffsetBytes, t \in OffsetTargets }

FlowPrograms ==
    JumpPrograms \cup CallPrograms \cup { RomOddReturn } \cup SkipPrograms
        \cup OffsetPrograms

(* Block store and load.
   200: V0 := a   202: V1 := b   204: V2 := c   206: VF := d   208: I := i
   20A: store V0..Vx   20C: V0 := 99h   20E: V1 := 98h   210: VF := 97h
   212: load V0..Vx *)
BlockValues == { << 1, 2, 3, 4 >>, << 255, 0, 128, 7 >> }
BlockRegs == { 0, 1, 2, 15 }
BlockPointers == { 768, 80, 158, 4080, 4094 }
BlockPrograms ==
    { Rom(<< 24576 + v[1], 24832 + v[2], 25088 + v[3], 28416 + v[4],
             40960 + i, Op(15, x, 5, 5),
             24729, 24984, 28567,
             Op(15, x, 6, 5) >>) :
        v \in BlockValues, x \in BlockRegs, i \in BlockPointers }

(* 200: V0 := v   202: I := i   204: digits of V0 to ram[I..I+2] *)
FontBcdPrograms ==
    { Rom(<< 24576 + v, 40960 + i, 61491 >>) : v \in { 0, 128, 255 }, i \in { 80, 157 } }

(* 200: I := 050   202: one word of the tour *)
TourFontPrograms == { Rom(<< 41040, w >>) : w \in TourWords }

MemPrograms == BlockPrograms \cup FontBcdPrograms \cup TourFontPrograms

(* 200: Vx := v   202: I := i   204: digits of Vx to ram[I..I+2] *)
BcdRegs == { 3, 15 }
BcdPointers == { 768, 4093, 4094 }
BcdPrograms ==
    { Rom(<< Op(6, x, v \div 16, v % 16), 40960 + i, Op(15, x, 3, 3) >>) :
        v \in 0 .. 255, x \in BcdRegs, i \in BcdPointers }

(* 200: I := glyph "1"   202: draw it at (0, 0)   204: one word of the tour
   206: clear *)
TourScreenPrograms == { Rom(<< 41045, 53253, w, 224 >>) : w \in TourWords }

(* 200: V0 := 3   202: delay := V0   204: I := glyph "1"   206: draw at (3, 3) *)
RomScreenTimers == Rom(<< 24579, 61461, 41045, 53253 >>)

ScreenPrograms == TourScreenPrograms \cup { RomScreenTimers }

ScreenKeys == { << >>, << 1, 3 >> }

(* 200: I := glyph "1"   202: draw at (0, 0)   204: I := glyph "2"
   206: draw at (0, 0): collision, VF = 1   208: Vx := vx   20A: Vy := vy
   20C: I := i   20E: clear   210: Dxyn   212: fifteen bytes of sprite data *)
ClearXs == { 0, 60 }
ClearYs == { 0, 30 }
ClearPointers == { 80, 530, 4095 }
ClearPrograms ==
    { Rom(<< 41045, 53253, 41050, 53253,
             Op(6, xy[1], vx \div 16, vx % 16), Op(6, xy[2], vy \div 16, vy % 16),
             40960 + i, 224, Op(13, xy[1], xy[2], n) >>)
        \o SpriteData :
        xy \in DrawRegs, vx \in ClearXs, vy \in ClearYs, n \in DrawHeights,
        i \in ClearPointers }

(* 200: V2 := 3   202: delay := V2   204: V2 := 5   206: delay := V2
   208: sound := V2 *)
RomReload == Rom(<< 25091, 61973, 25093, 61973, 61976 >>)

(* 200: V2 := 3   202: delay := V2   204: sound := V2   206: ret, no call *)
RomTimerAbort == Rom(<< 25091, 61973, 61976, 238 >>)

TimerPrograms == { RomTimers, RomReload, RomTimerAbort }

KeyInputs == { << >>, << 1, 3 >>, << 3, 1 >> }
RandBytes == { 90, 255 }

----------------------------------------------------------------------------
(* The state machine: construction, cycle, timer tick *)

InitWith(progs, modes, profiles) ==
    \E prog \in progs, leg \in modes, oc \in profiles :
        \E c \in { new(prog, leg) } :
           /\ pc = c.pc
           /\ ram = c.ram
           /\ stack = c.stack
           /\ display = c.display
           /\ d_timer = c.d_timer
           /\ s_timer = c.s_timer
           /\ i_reg = c.i_reg
           /\ v_reg = c.v_reg
           /\ legacy = c.legacy
           /\ panic = c.panic
           /\ overflow_checks = oc
           /\ program = prog
           /\ instruction = -1
           /\ keys = << >>
           /\ before = c
           /\ cycles = 0

Becomes(c) ==
    /\ pc' = c.pc
    /\ ram' = c.ram
    /\ stack' = c.stack
    /\ display' = c.display
    /\ d_timer' = c.d_timer
    /\ s_timer' = c.s_timer
    /\ i_reg' = c.i_reg
    /\ v_reg' = c.v_reg
    /\ legacy' = c.legacy
    /\ panic' = c.panic
    /\ UNCHANGED << overflow_checks, program >>

(* core.cycle(&keys) *)
CycleWith(keySet, randSet, maxCycles) ==
    /\ panic = "none"
    /\ cycles < maxCycles
    /\ \E ks \in keySet, rnd \in randSet :
          \E c \in { cycle(Core, ks, rnd) } :
              /\ Becomes(c)
              /\ instruction' = fetch(Core).instruction
              /\ keys' = ks
    /\ before' = Core
    /\ cycles' = cycles + 1

Cycle == CycleWith(KeyInputs, RandBytes, MaxCycles)

(* core.decrement_timers() *)
Tick ==
    /\ panic = "none"
    /\ Becomes(decrement_timers(Core))
    /\ UNCHANGED << instruction, keys, before, cycles >>

Init == InitWith(Programs, BOOLEAN, BOOLEAN)

Next == Cycle \/ Tick

Spec == Init /\ [][Next]_vars

(* Arithmetic and shift instructions on every pair of registers; no key is
   down and no instruction of these ROMs can overflow *)
InitAlu == InitWith(AluPrograms, BOOLEAN, { FALSE })

CycleAlu == CycleWith({ << >> }, { 0 }, MaxAluCycles)

NextAlu == CycleAlu \/ Tick

SpecAlu == InitAlu /\ [][NextAlu]_vars

(* Sprite drawing at and across the edges of the screen, over a framebuffer
   that already shows a glyph; the legacy flag plays no part in Dxyn *)
InitDraw == InitWith(DrawPrograms, { FALSE }, BOOLEAN)

CycleDraw == CycleWith({ << >> }, { 0 }, MaxDrawCycles)

NextDraw == CycleDraw \/ Tick

SpecDraw == InitDraw /\ [][NextDraw]_vars

(* Jumps, calls, returns, skips and Bnnn, to targets up to the end of memory;
   neither the legacy flag nor a timer plays a part *)
InitFlow == InitWith(FlowPrograms, { FALSE }, BOOLEAN)

CycleFlow == CycleWith(KeyInputs, { 0 }, MaxFlowCycles)

NextFlow == CycleFlow \/ Tick

SpecFlow == InitFlow /\ [][NextFlow]_vars

(* Fx33, Fx55 and Fx65 with I in free memory, in the font table and at the
   end of memory, and every row of the opcode table with I at the font *)
InitMem == InitWith(MemPrograms, { FALSE }, BOOLEAN)

CycleMem == CycleWith({ << >> }, { 0 }, MaxMemCycles)

NextMem == CycleMem \/ Tick

SpecMem == InitMem /\ [][NextMem]_vars

(* Fx33 on every byte value *)
InitBcd == InitWith(BcdPrograms, { FALSE }, { FALSE })

CycleBcd == CycleWith({ << >> }, { 0 }, MaxBcdCycles)

NextBcd == CycleBcd \/ Tick

SpecBcd == InitBcd /\ [][NextBcd]_vars

(* Every row of the opcode table, and timer ticks, over a framebuffer that
   shows a glyph *)
InitScreen == InitWith(ScreenPrograms, { FALSE }, BOOLEAN)

CycleScreen == CycleWith(ScreenKeys, { 255 }, MaxScreenCycles)

NextScreen == CycleScreen \/ Tick

SpecScreen == InitScreen /\ [][NextScreen]_vars

(* 00E0 and then one Dxyn, from a framebuffer that is not blank and VF = 1 *)
InitClear == InitWith(ClearPrograms, { FALSE }, BOOLEAN)

CycleClear == CycleWith({ << >> }, { 0 }, MaxClearCycles)

NextClear == CycleClear \/ Tick

SpecClear == InitClear /\ [][NextClear]_vars

(* Programs that set, reload and read the timers.  The host loop calls
   decrement_timers whenever a sixtieth of a second has passed
   (emu/src/main.rs), so a tick that has something to decrement is not put
   off for ever: weak fairness of Tick. *)
InitTimers == InitWith(TimerPrograms, BOOLEAN, BOOLEAN)

CycleTimers == CycleWith({ << >> }, { 0 }, MaxTimerCycles)

NextTimers == CycleTimers \/ Tick

SpecTimers == InitTimers /\ [][NextTimers]_vars /\ WF_vars(Tick)

----------------------------------------------------------------------------
(* Properties *)

Glyph8 == << 240, 144, 240, 144, 240 >>

(* The 8 x 5 block whose top-left cell is (row0, col0) shows the digit 8 *)
ShowsGlyph8At(row0, col0) ==
    \A row \in 0 .. 4, col \in 0 .. 7 :
        display[SCREEN_WIDTH * (row0 + row) + col0 + col]
            = (Bit(Glyph8[row + 1], 7 - col) = 1)

(* C1, as claimed: a machine built from the ROM 60 05 70 03 F0 29 D0 05
   shows, after exactly four cycles, the glyph of digit 8 (rows F0 90 F0 90
   F0, most significant bit leftmost) in rows 0..4, columns 0..7. *)
C1_GlyphAtTopLeft ==
    (program = RomGlyph /\ cycles = 4) => ShowsGlyph8At(0, 0)

(* C1, amended: D005 draws at (V0 mod 64, V0 mod 32) and V0 holds 8 by then,
   so after exactly four cycles the glyph of digit 8 fills rows 8..12,
   columns 8..15, every other pixel is off, and no panic has occurred,
   whatever the legacy flag and however timer ticks are interleaved. *)
C1_GlyphAtV0V0 ==
    (program = RomGlyph /\ cycles = 4) =>
        /\ panic = "none"
        /\ ShowsGlyph8At(8, 8)
        /\ \A p \in Pixels :
              display[p] =>
                  /\ p \div SCREEN_WIDTH \in 8 .. 12
                  /\ p % SCREEN_WIDTH \in 8 .. 15

C1_Witness ==
    /\ program = RomGlyph
    /\ cycles = 4
    /\ instruction = 53253
    /\ v_reg[0] = 8
    /\ display[SCREEN_WIDTH * 8 + 8]
    /\ ~display[SCREEN_WIDTH * 9 + 9]

----------------------------------------------------------------------------
(* The last cycle ran to its end and executed a word of family `nibble` *)
Executed(nibble) ==
    /\ cycles > 0
    /\ panic = "none"
    /\ instruction \div 4096 = nibble

ExecutedAlu(k) == Executed(8) /\ N(instruction) = k

(* Operands of the last instruction, as they were when its cycle started *)
OpX == X(instruction)
OpY == Y(instruction)
VxBefore == before.v_reg[OpX]
VyBefore == before.v_reg[OpY]

(* C2, as claimed: for all register indices x, y (0xF included) and all
   values a = Vx, b = Vy held before 8xy4, the instruction leaves VF = 1 if
   a + b >= 256 and VF = 0 otherwise, and leaves Vx = (a + b) mod 256. *)
C2_AddFlagAndSum ==
    ExecutedAlu(4) =>
        /\ v_reg[15] = (IF VxBefore + VyBefore >= 256 THEN 1 ELSE 0)
        /\ v_reg[OpX] = (VxBefore + VyBefore) % 256

(* C3, as claimed: for all register indices x, y (0xF included) and all
   values a = Vx, b = Vy held before the instruction, 8xy5 leaves VF = 1 iff
   a >= b and Vx = (a - b) mod 256, and 8xy7 leaves VF = 1 iff b >= a and
   Vx = (b - a) mod 256, the difference being taken from the values held
   before the instruction. *)
C3_SubFlagAndDifference ==
    /\ ExecutedAlu(5) =>
          /\ v_reg[15] = (IF VxBefore >= VyBefore THEN 1 ELSE 0)
          /\ v_reg[OpX] = (VxBefore - VyBefore) % 256
    /\ ExecutedAlu(7) =>
          /\ v_reg[15] = (IF VyBefore >= VxBefore THEN 1 ELSE 0)
          /\ v_reg[OpX] = (VyBefore - VxBefore) % 256

(* The register file the last cycle would have left had the machine been
   built with the other legacy setting, everything else equal *)
OtherModeRegs ==
    cycle([before EXCEPT !.legacy = ~before.legacy], keys, 0).v_reg

ExecutedShift == ExecutedAlu(6) \/ ExecutedAlu(14)

ShiftSource == IF legacy THEN VyBefore ELSE VxBefore
ShiftFlag(v) == IF N(instruction) = 6 THEN v % 2 ELSE v \div 128
ShiftValue(v) == IF N(instruction) = 6 THEN v \div 2 ELSE (v * 2) % 256

(* In legacy mode the shift works on Vy, otherwise on Vx: Vx receives the
   shifted value and VF the bit shifted out; with x = 0xF the one register
   ends as the shifted flag bit.  No other register changes. *)
ShiftComputedFromSource ==
    /\ OpX # 15 => /\ v_reg[OpX] = ShiftValue(ShiftSource)
                   /\ v_reg[15] = ShiftFlag(ShiftSource)
    /\ OpX = 15 => v_reg[15] = ShiftValue(ShiftFlag(ShiftSource))
    /\ \A r \in Regs \ { OpX, 15 } : v_reg[r] = before.v_reg[r]

(* C4, as claimed: two machines equal but for the legacy flag execute the
   same 8xy6 or 8xyE, any x and y; whenever Vx # Vy beforehand the two
   resulting register files differ, the legacy one being computed from Vy
   and the other from Vx. *)
C4_ShiftModesDiffer ==
    ExecutedShift =>
        /\ VxBefore # VyBefore => v_reg # OtherModeRegs
        /\ ShiftComputedFromSource

(* C4, amended: the same, for x # 0xF.  (With x = 0xF the flag write and the
   shift land in the one register VF and both modes can leave the same
   register file.) *)
C4_ShiftModesDifferUnlessVF ==
    ExecutedShift =>
        /\ (VxBefore # VyBefore /\ OpX # 15) => v_reg # OtherModeRegs
        /\ ShiftComputedFromSource

C4_Witness ==
    /\ ExecutedAlu(6)
    /\ legacy
    /\ OpX = 0 /\ OpY = 15
    /\ VxBefore = 1 /\ VyBefore = 128
    /\ v_reg[0] = 64 /\ v_reg[15] = 0
    /\ OtherModeRegs[0] = 0 /\ OtherModeRegs[15] = 1

----------------------------------------------------------------------------
Min(a, b) == IF a < b THEN a ELSE b

(* The framebuffer cells inside the clipped rectangle of the Dxyn word
   `instr` executed from machine c on which a sprite bit 1 falls *)
SpriteCells(c, instr) ==
    LET ix == c.v_reg[X(instr)] % 64
        iy == c.v_reg[Y(instr)] % 32
        rows == iy .. (Min(iy + N(instr), 32) - 1)
        cols == ix .. (Min(ix + 8, 64) - 1)
    IN { SCREEN_WIDTH * rc[1] + rc[2] :
            rc \in { rc \in rows \X cols :
                        Bit(c.ram[c.i_reg + (rc[1] - iy)], 7 - (rc[2] - ix)) = 1 } }

(* The cells in which two framebuffers differ *)
Changed(d1, d2) == { p \in Pixels : d1[p] # d2[p] }

(* This step is a cycle that runs, right after a completed Dxyn, the same
   Dxyn again with the same origin, the same I and the same sprite bytes *)
SecondDraw ==
    /\ Executed(13)
    /\ cycles' = cycles + 1
    /\ panic' = "none"
    /\ instruction' = instruction
    /\ v_reg[OpX] % 64 = VxBefore % 64
    /\ v_reg[OpY] % 32 = VyBefore % 32
    /\ i_reg = before.i_reg
    /\ \A r \in 0 .. (N(instruction) - 1) :
          i_reg + r < RAM_SIZE => ram[i_reg + r] = before.ram[i_reg + r]

(* C5, as claimed: when a Dxyn is executed twice in a row with the same
   origin, I and sprite bytes, then after the second draw the framebuffer is
   the one before the first draw, every pixel the first draw affected is
   off, and VF = 1. *)
C5_SecondDrawErases ==
    [][SecondDraw =>
          /\ display' = before.display
          /\ { p \in SpriteCells(before, instruction) : display'[p] } = { }
          /\ v_reg'[15] = 1]_vars

(* C5, amended: after the second draw the framebuffer is the one before the
   first draw, and VF = 1 exactly when the first draw turned at least one
   pixel on (VF = 0 otherwise). *)
C5_SecondDrawRestores ==
    [][SecondDraw =>
          /\ display' = before.display
          /\ (v_reg'[15] = 1) <=> ({ p \in Pixels : display[p] /\ ~before.display[p] } # { })
          /\ v_reg'[15] \in { 0, 1 }]_vars

(* the second of the three draws has put back a framebuffer that was not
   blank, erasing what the first draw had turned on *)
C5_Witness ==
    /\ Executed(13)
    /\ cycles = 7
    /\ OpX = 0 /\ OpY = 1
    /\ v_reg[15] = 1
    /\ \E p \in Pixels : before.display[p] /\ ~display[p]
    /\ \E p \in Pixels : display[p]

(* C6: a completed Dxyn with origin (ix, iy) = (Vx mod 64, Vy mod 32)
   toggles exactly the framebuffer cells (row, col) with
   iy <= row < min(iy + n, 32) and ix <= col < min(ix + 8, 64) whose sprite
   bit is 1: sprite rows and columns past row 31 or column 63 are dropped,
   never wrapped, every other cell is unchanged, and the part that fits is
   drawn as it would be without clipping. *)
C6_DrawTogglesClippedSprite ==
    Executed(13) =>
        Changed(before.display, display) = SpriteCells(before, instruction)

(* a sprite cut at the right and at the bottom edge: its top-left bit was
   drawn at (31, 63) and nothing appeared in row 0 or column 0 *)
C6_Witness ==
    /\ Executed(13)
    /\ cycles = 6
    /\ N(instruction) = 15
    /\ before.i_reg = 528
    /\ VxBefore % 64 = 63 /\ VyBefore % 32 = 31
    /\ display[SCREEN_WIDTH * 31 + 63] # before.display[SCREEN_WIDTH * 31 + 63]
    /\ { p \in Pixels : display[p] /\ (p < SCREEN_WIDTH \/ p % SCREEN_WIDTH = 0) } = { }

----------------------------------------------------------------------------
ExecutedF(nn) == Executed(15) /\ NN(instruction) = nn
ExecutedRet == Executed(0) /\ instruction = 238

(* The step is a call of cycle *)
CycleStep == cycles' = cycles + 1

(* The step is a call of decrement_timers *)
TickStep == cycles' = cycles

IsF(word, nn) == word \div 4096 = 15 /\ word % 256 = nn

C7_CallAndReturn ==
    /\ Executed(2) =>
          /\ stack = Append(before.stack, before.pc + 2)
          /\ pc = instruction % 4096
    /\ ExecutedRet =>
          /\ before.stack # << >>
          /\ pc = before.stack[Len(before.stack)]
          /\ stack = SubSeq(before.stack, 1, Len(before.stack) - 1)
    /\ program = RomCalls =>
          /\ cycles = 2 => stack = << 514, 518 >>
          /\ cycles = 3 => pc = 518 /\ stack = << 514 >>
          /\ cycles = 4 => pc = 514 /\ stack = << >>

C7_ReturnRightAfterCall ==
    (Executed(2) /\ CycleStep /\ instruction' = 238) =>
        /\ panic' = "none"
        /\ pc' = before.pc + 2
        /\ stack' = before.stack

(* C7: calls and returns are matched last-in first-out.  2nnn at address a
   pushes a + 2 and sets pc = nnn; a completed 00EE sets pc to the most
   recently pushed address not yet returned to and removes exactly that
   entry; two nested calls followed by two returns visit the return
   addresses in reverse call order and leave the stack as it was; a return
   right after a call leaves pc at the instruction after the call, and the
   stack as before the call. *)
C7_CallsReturnLifo == []C7_CallAndReturn /\ [][C7_ReturnRightAfterCall]_vars

C7_Witness ==
    /\ program = RomCalls
    /\ cycles = 4
    /\ ExecutedRet
    /\ before.stack = << 514 >>
    /\ pc = 514
    /\ stack = << >>

StackDelta ==
    IF instruction \div 4096 = 2 THEN 1 ELSE IF instruction = 238 THEN -1 ELSE 0

C8_UnderflowAborts ==
    /\ (cycles > 0 /\ instruction = 238 /\ before.stack = << >>) =>
          /\ panic = "stack underflow"
          /\ stack = << >>
    /\ panic = "stack underflow" =>
          (cycles > 0 /\ instruction = 238 /\ before.stack = << >>)
    /\ (cycles > 0 /\ panic = "none") =>
          Len(stack) = Len(before.stack) + StackDelta

(* C8: 00EE on an empty call stack is fatal: the cycle ends in the aborted
   state "stack underflow" and no operation runs from an aborted state, so
   the machine never goes on with a program counter as if the return had
   succeeded.  The stack holds one entry per call not yet returned from, so
   it is empty exactly when a return would exceed the calls. *)
C8_EmptyReturnIsFatal == []C8_UnderflowAborts /\ [][panic = "none"]_vars

C8_Witness ==
    /\ program = RomCalls
    /\ cycles = 5
    /\ instruction = 238
    /\ before.stack = << >>
    /\ panic = "stack underflow"

Ascending(ks) == \A j \in 1 .. (Len(ks) - 1) : ks[j] < ks[j + 1]
Lowest(ks) == CHOOSE k \in { ks[j] : j \in 1 .. Len(ks) } :
                  \A j \in 1 .. Len(ks) : k <= ks[j]

AwaitStep == CycleStep /\ panic' = "none" /\ IsF(instruction', 10)

C9_AwaitKeyStep ==
    /\ (AwaitStep /\ keys' = << >>) =>
          /\ pc' = pc
          /\ UNCHANGED << v_reg, i_reg, ram, stack, display, d_timer, s_timer >>
    /\ (ExecutedF(10) /\ keys = << >> /\ CycleStep) => instruction' = instruction
    /\ (AwaitStep /\ keys' # << >>) =>
          /\ pc' = pc + 2
          /\ v_reg' = [v_reg EXCEPT ![X(instruction')] = keys'[1]]
          /\ Ascending(keys') => v_reg'[X(instruction')] = Lowest(keys')

(* C9: a cycle that executes Fx0A with no key reported leaves the program
   counter where it was before the cycle and changes no register, nor I,
   memory, stack, display or timers, so the next cycle executes the same
   Fx0A again; with a key reported the program counter advances by 2 and
   Vx receives the first reported key, the lowest one when the keys are
   reported in ascending order, and no other register changes. *)
C9_AwaitKey == [][C9_AwaitKeyStep]_vars

(* the second wait is over: V3 took the first of the keys 1, 3 *)
C9_Witness ==
    /\ program = RomKeys
    /\ cycles = 4
    /\ ExecutedF(10)
    /\ keys = << 1, 3 >>
    /\ before.pc = 514 /\ pc = 516
    /\ before.v_reg[3] = 9 /\ v_reg[3] = 1

Decremented(t) == IF t - 1 > 0 THEN t - 1 ELSE 0

C10_TimerStep ==
    /\ TickStep =>
          /\ d_timer' = Decremented(d_timer)
          /\ s_timer' = Decremented(s_timer)
          /\ d_timer' \in 0 .. 255 /\ s_timer' \in 0 .. 255
          /\ UNCHANGED << pc, v_reg, i_reg, ram, stack, display >>
    /\ (CycleStep /\ ~IsF(instruction', 21)) => d_timer' = d_timer
    /\ (CycleStep /\ ~IsF(instruction', 24)) => s_timer' = s_timer

(* C10: decrement_timers maps each timer to max(value - 1, 0), a zero timer
   staying 0 and never wrapping to 255, and changes nothing else; no cycle
   changes the delay timer unless it executes Fx15, nor the sound timer
   unless it executes Fx18, however cycles and ticks are interleaved. *)
C10_TimersOnlyTickDown == [][C10_TimerStep]_vars

(* one tick after the delay timer was set to 3, a second one after the
   sound timer was set to 3, and a third with the delay timer at 0 *)
C10_Witness ==
    /\ program = RomTimers
    /\ cycles = 4
    /\ d_timer = 0
    /\ s_timer = 1
    /\ v_reg[5] = 1

----------------------------------------------------------------------------
(* The word matches a row of the opcode table *)
InTable(word) ==
    LET nibble == word \div 4096
        rest == word % 4096
    IN CASE nibble = 0 -> rest \in { 224, 238 }
         [] nibble \in { 5, 9 } -> N(rest) = 0
         [] nibble = 8 -> N(rest) \in { 0, 1, 2, 3, 4, 5, 6, 7, 14 }
         [] nibble = 14 -> NN(rest) \in { 158, 161 }
         [] nibble = 15 -> NN(rest) \in { 7, 10, 21, 24, 30, 41, 51, 85, 101 }
         [] OTHER -> TRUE

(* C11, as claimed: a cycle whose word matches no row of the opcode table
   (0nnn other than 00E0 and 00EE; 5xyN and 9xyN with N # 0; 8xyN with N
   outside 0..7 and E; ExNN other than Ex9E, ExA1; FxNN outside the nine
   listed) executes no effect: the program counter advances by exactly 2
   and everything else in the machine stays as it was. *)
C11_UnmatchedWordOnlyAdvances ==
    [][(CycleStep /\ instruction' >= 0 /\ ~InTable(instruction')) =>
          /\ panic' = "none"
          /\ pc' = pc + 2
          /\ UNCHANGED << ram, stack, display, d_timer, s_timer, i_reg, v_reg >>]_vars

----------------------------------------------------------------------------
(* C12, as claimed: right after a cycle that executed 00EE, 1nnn or 2nnn,
   whatever the ROM and the operand nnn, the program counter is even. *)
C12_EvenAfterJumpCallReturn ==
    (Executed(1) \/ Executed(2) \/ ExecutedRet) => pc % 2 = 0

(* C12, amended: right after a cycle that executed 1nnn or 2nnn the program
   counter is nnn, hence even exactly when nnn is even; right after a
   completed 00EE it is the return address that was on top of the stack,
   hence even exactly when that address is even. *)
C12_TargetDecidesParity ==
    /\ (Executed(1) \/ Executed(2)) =>
          /\ pc = instruction % 4096
          /\ (pc % 2 = 0) <=> ((instruction % 4096) % 2 = 0)
    /\ ExecutedRet =>
          /\ pc = before.stack[Len(before.stack)]
          /\ (pc % 2 = 0) <=> (before.stack[Len(before.stack)] % 2 = 0)

(* the call at the odd address 203 pushed 205, and the return went there *)
C12_Witness ==
    /\ program = RomOddReturn
    /\ cycles = 3
    /\ ExecutedRet
    /\ before.stack = << 517 >>
    /\ pc = 517

----------------------------------------------------------------------------
(* C13, as claimed: in every reachable state, whatever the ROM and the keys,
   the program counter is an address in 0..4095; neither straight-line
   execution up to the end of memory, nor a skip, nor Bnnn with V0 + nnn,
   nor a call or return takes it out of that range. *)
C13_PcInsideMemory == pc \in 0 .. (RAM_SIZE - 1)

----------------------------------------------------------------------------
FontBytes == FONT_ADDR .. (FONT_ADDR + Len(FONT) - 1)

FontIntact == \A a \in FontBytes : ram[a] = FONT[a - FONT_ADDR + 1]

(* C14, as claimed: in every reachable state, whatever the ROM, the bytes
   0x050..0x09F hold the font table written at construction; no instruction,
   Fx33 and Fx55 with I inside that range included, changes any of them. *)
C14_FontNeverChanges == FontIntact

(* The memory range the word `word` stores to when run from machine c *)
StoreRange(c, word) ==
    IF IsF(word, 51) THEN c.i_reg .. (c.i_reg + 2)
    ELSE IF IsF(word, 85) THEN c.i_reg .. (c.i_reg + X(word))
    ELSE { }

(* C14, amended: the bytes 0x050..0x09F hold the font table after
   construction, and a step changes one of them only if it is a cycle that
   executes Fx33 or Fx55 and the byte lies in the target range of that
   instruction (I..I+2, resp. I..I+x); with I pointing into the font these
   two instructions do overwrite it. *)
C14_OnlyStoresChangeFont ==
    /\ [](cycles = 0 => FontIntact)
    /\ [][{ a \in FontBytes : ram'[a] # ram[a] } \subseteq StoreRange(Core, instruction')]_vars

(* F055 with I = 050 has put V0 = 1 over the first byte of glyph 0 *)
C14_Witness ==
    /\ program \in BlockPrograms
    /\ ExecutedF(85)
    /\ before.i_reg = 80
    /\ before.ram[80] = 240
    /\ ram[80] = 1
    /\ ~FontIntact

----------------------------------------------------------------------------
Blank == [p \in Pixels |-> FALSE]

C15_DisplayStep ==
    /\ TickStep => display' = display
    /\ (CycleStep /\ instruction' # 224 /\ instruction' \div 4096 # 13) =>
          display' = display
    /\ (CycleStep /\ instruction' = 224) =>
          /\ panic' = "none"
          /\ display' = Blank
          /\ pc' = pc + 2
          /\ UNCHANGED << ram, stack, d_timer, s_timer, i_reg, v_reg >>

(* C15: the framebuffer is changed by 00E0 and Dxyn only.  Every other
   cycle, a decode failure and a waiting Fx0A included, and every timer tick
   leave all 64 * 32 pixels as they were; 00E0 turns every pixel off and,
   but for the program counter advanced by 2 at fetch, changes nothing
   else. *)
C15_OnlyClearAndDrawChangeDisplay == [][C15_DisplayStep]_vars

(* 00E0 has blanked a framebuffer that showed the glyph "1" *)
C15_Witness ==
    /\ program \in TourScreenPrograms
    /\ Executed(0) /\ instruction = 224
    /\ before.display[SCREEN_WIDTH * 4 + 1]
    /\ display = Blank

----------------------------------------------------------------------------
(* A machine fresh from construction, given the registers, I and memory of
   the current one *)
Fresh == [new(program, legacy) EXCEPT !.v_reg = v_reg, !.i_reg = i_reg, !.ram = ram]

(* The step is a completed Dxyn run right after a completed 00E0 *)
DrawAfterClear ==
    /\ Executed(0) /\ instruction = 224
    /\ CycleStep
    /\ panic' = "none"
    /\ instruction' \div 4096 = 13

C16_DrawAfterClearStep ==
    DrawAfterClear =>
        /\ { p \in Pixels : display'[p] } = SpriteCells(Core, instruction')
        /\ display' = draw_sprite(Fresh, instruction' % 4096).display
        /\ v_reg'[15] = 0

(* C16: 00E0 followed by one Dxyn leaves a framebuffer in which a pixel is
   on iff it is a sprite bit 1 inside the clipped sprite rectangle, which is
   the framebuffer a machine fresh from construction shows after the same
   draw with the same Vx, Vy, I and sprite bytes; the draw leaves VF = 0. *)
C16_ClearThenDrawIsFreshDraw == [][C16_DrawAfterClearStep]_vars

(* a 15-row sprite drawn at (60, 30) after the clear: cut at both edges,
   nothing left of the two glyphs, and the collision flag is gone *)
C16_Witness ==
    /\ program \in ClearPrograms
    /\ cycles = 9
    /\ Executed(13)
    /\ N(instruction) = 15
    /\ before.i_reg = 530
    /\ before.v_reg[0] = 60 /\ before.v_reg[1] = 30 /\ OpX = 0 /\ OpY = 1
    /\ before.display = Blank
    /\ display[SCREEN_WIDTH * 30 + 60]
    /\ ~display[SCREEN_WIDTH * 4 + 1]
    /\ v_reg[15] = 0

----------------------------------------------------------------------------
(* The big-endian word stored at address a of memory m *)
WordAt(m, a) == m[a] * 256 + m[a + 1]

(* The last cycle ran to its end and executed a skip of the opcode table *)
ExecutedSkip ==
    \/ Executed(3) \/ Executed(4)
    \/ (Executed(5) \/ Executed(9)) /\ N(instruction) = 0
    \/ Executed(14) /\ NN(instruction) \in { 158, 161 }

(* The condition of that skip held on the registers and keys of its cycle *)
SkipTaken ==
    CASE instruction \div 4096 = 3 -> VxBefore = NN(instruction)
      [] instruction \div 4096 = 4 -> VxBefore # NN(instruction)
      [] instruction \div 4096 = 5 -> VxBefore = VyBefore
      [] instruction \div 4096 = 9 -> VxBefore # VyBefore
      [] instruction \div 4096 = 14 ->
            (NN(instruction) = 158) <=> Contains(keys, VxBefore)

C17_FetchStep ==
    /\ (CycleStep /\ pc + 1 < RAM_SIZE) => instruction' = WordAt(ram, pc)
    /\ (CycleStep /\ instruction' \div 4096 = 6) => pc' = pc + 2
    /\ (CycleStep /\ instruction' \div 4096 = 2) => stack' = Append(stack, pc + 2)
    /\ (Executed(1) /\ CycleStep /\ panic' = "none") =>
          instruction' = WordAt(ram, instruction % 4096)
    /\ (ExecutedSkip /\ CycleStep /\ panic' = "none") =>
          instruction' = WordAt(ram, before.pc + (IF SkipTaken THEN 4 ELSE 2))

(* C17: a cycle executes the word memory[pc] * 256 + memory[pc + 1] of the
   program counter it starts with, and applies the effect to a counter
   already advanced by 2 (a plain instruction leaves pc + 2, a call pushes
   pc + 2).  So the cycle after 1nnn executes the word stored at nnn, and
   the cycle after a skip (3xnn, 4xnn, 5xy0, 9xy0, Ex9E, ExA1) executes the
   word 4 bytes after the skip when it was taken, 2 bytes after when not. *)
C17_FetchThenExecute == [][C17_FetchStep]_vars

(* 3001 with V0 = 1 was taken: the word at 204 was passed over and the one
   at 206 executed *)
C17_Witness ==
    /\ program = Rom(<< 24577, 12289, 25601, 25858 >>)
    /\ cycles = 3
    /\ instruction = 25858
    /\ before.pc = 518
    /\ v_reg[4] = 0
    /\ v_reg[5] = 2

----------------------------------------------------------------------------
(* The step is a cycle that fetches FxNN with NN = nn *)
StepF(nn) == CycleStep /\ IsF(instruction', nn)

C18_BlockStep ==
    /\ (StepF(85) /\ i_reg + X(instruction') <= 4095) =>
          /\ panic' = "none"
          /\ ram' = [a \in i_reg .. (i_reg + X(instruction')) |-> v_reg[a - i_reg]] @@ ram
          /\ UNCHANGED << v_reg, i_reg >>
    /\ (StepF(101) /\ i_reg + X(instruction') <= 4095) =>
          /\ panic' = "none"
          /\ \A k \in 0 .. X(instruction') : v_reg'[k] = ram[i_reg + k]
          /\ \A r \in Regs : r > X(instruction') => v_reg'[r] = v_reg[r]
          /\ UNCHANGED << ram, i_reg >>

(* The value the block program loaded into register k before its store *)
Loaded(k) ==
    CASE k = 0 -> program[2]
      [] k = 1 -> program[4]
      [] k = 2 -> program[6]
      [] k = 15 -> program[8]
      [] OTHER -> 0

(* The block program has run its Fx55, overwritten V0, V1 and VF, and then
   run Fx65 with the same x and I *)
RoundTripDone ==
    /\ program \in BlockPrograms
    /\ cycles = 10
    /\ ExecutedF(101)

C18_RoundTrip ==
    RoundTripDone =>
        /\ \A k \in 0 .. OpX : v_reg[k] = Loaded(k)
        /\ \A a \in 0 .. OpX : ram[i_reg + a] = Loaded(a)
        /\ i_reg = (program[9] % 16) * 256 + program[10]

(* C18: with I + x <= 4095, Fx55 writes memory[I + k] = Vk for k in 0..x
   and changes no other memory byte, Fx65 sets Vk = memory[I + k] for k in
   0..x and changes no register above Vx, and neither changes I; so Fx55
   followed by Fx65 with the same x and I gives V0..Vx back the values they
   had before the store, also when they were overwritten in between. *)
C18_StoreThenLoadRestores == []C18_RoundTrip /\ [][C18_BlockStep]_vars

(* V0..V2 stored at 300, V0 and V1 overwritten, and the three loaded back;
   VF, above x, keeps what it was overwritten with *)
C18_Witness ==
    /\ RoundTripDone
    /\ OpX = 2
    /\ i_reg = 768
    /\ before.v_reg[0] = 153 /\ before.v_reg[1] = 152
    /\ v_reg[0] = 255 /\ v_reg[1] = 0 /\ v_reg[2] = 128
    /\ v_reg[15] = 151

----------------------------------------------------------------------------
C19_BcdStep ==
    (StepF(51) /\ i_reg + 2 <= 4095) =>
        LET v == v_reg[X(instruction')]
            h == ram'[i_reg]
            t == ram'[i_reg + 1]
            o == ram'[i_reg + 2]
        IN /\ panic' = "none"
           /\ h \in 0 .. 9 /\ t \in 0 .. 9 /\ o \in 0 .. 9
           /\ 100 * h + 10 * t + o = v
           /\ ram' = [ram EXCEPT ![i_reg] = h, ![i_reg + 1] = t, ![i_reg + 2] = o]
           /\ UNCHANGED << v_reg, i_reg >>

(* C19: for every byte v in Vx and every I with I + 2 <= 4095, Fx33 writes
   to memory[I], memory[I + 1], memory[I + 2] three digits h, t, o, each in
   0..9, with 100 * h + 10 * t + o = v, the most significant first, and
   changes no other memory byte, no register and not I. *)
C19_BcdDigits == [][C19_BcdStep]_vars

(* 254 from VF, written as 2, 5, 4 to the last three bytes of memory *)
C19_Witness ==
    /\ ExecutedF(51)
    /\ OpX = 15
    /\ v_reg[15] = 254
    /\ i_reg = 4093
    /\ ram[4093] = 2 /\ ram[4094] = 5 /\ ram[4095] = 4

----------------------------------------------------------------------------
TimersAtZero == d_timer = 0 /\ s_timer = 0

(* C20, as claimed: across every step of the machine, instruction cycle or
   timer tick, neither the delay timer nor the sound timer increases, and
   under fair repetition of timer ticks both timers eventually reach 0 and
   then remain 0. *)
C20_TimersNeverIncrease ==
    /\ [][d_timer' <= d_timer /\ s_timer' <= s_timer]_vars
    /\ <>[]TimersAtZero

C20_TimerStep ==
    /\ TickStep => (d_timer' <= d_timer /\ s_timer' <= s_timer)
    /\ (CycleStep /\ d_timer' # d_timer) =>
          (IsF(instruction', 21) /\ d_timer' = v_reg[X(instruction')])
    /\ (CycleStep /\ s_timer' # s_timer) =>
          (IsF(instruction', 24) /\ s_timer' = v_reg[X(instruction')])

(* C20, amended: across every timer tick neither timer increases; a cycle
   changes the delay timer only by executing Fx15 and the sound timer only
   by executing Fx18, which set it to Vx and so can raise it; under fair
   repetition of timer ticks, in a process that has not aborted, both
   timers are 0 and remain 0 from some point after the last Fx15 or Fx18. *)
C20_OnlyTicksAndStoresMoveTimers ==
    /\ [][C20_TimerStep]_vars
    /\ <>[](panic # "none" \/ TimersAtZero)

(* Fx18 raised the sound timer from 0 to 5 while the delay timer stood at
   5, and the ticks since have brought both down to 0 *)
C20_Witness ==
    /\ program = RomReload
    /\ cycles = 5
    /\ ExecutedF(24)
    /\ before.s_timer = 0 /\ before.d_timer = 5
    /\ panic = "none"
    /\ TimersAtZero

====
